---- MODULE Spec2Model ----
(***************************************************************************)
(* Chat-session persistence of AgustoGPT: AzureStorageManager              *)
(* (src/azure_storage.py) over a blob container and an entity table.       *)
(*                                                                         *)
(* Text values (identifiers, message contents, timestamps, blob names)     *)
(* are sequences of tokens, one token per character or per word, so that   *)
(* the slicing, formatting and encoding the code performs are computed.    *)
(***************************************************************************)
EXTENDS Integers, Sequences, FiniteSets, TLC

\* ------------------------------------------------------------------ bounds
\* Number of manager calls one behaviour may start.
MaxCalls == 2
\* Last clock reading; the clock counts half seconds.
MaxTime == 1
\* Largest limit passed to list_user_chats.
MaxLimit == 2
\* Length of the long message content, beyond both truncation lengths.
LongLen == 250

\* Last clock reading of the application, in half seconds.
MaxAppTime == 2
\* Number of handler runs of the application one behaviour may have.
MaxRuns == 3
\* Number of handler runs of two browser sessions on shared chats.
MaxSharedRuns == 5

\* ------------------------------------------------------- program constants
\* chat_title = msg.get('content', '')[:100]
TitleMax == 100
\* 'LastMessage': messages[-1]['content'][:200]
LastMessageMax == 200

\* uuid.uuid4().hex is 32 hexadecimal characters; hex[:12] is kept.
UuidHexLen == 32
IdHexLen == 12
\* list_user_chats(st.session_state.storage_user_id, limit=20)
HistoryLimit == 20
\* get_recent_chat_history(num_messages=2)
NumMessages == 2
\* if len(content) > 200: content = content[:197] + "..."
HistoryContentMax == 200
HistoryContentKept == 197

\* --------------------------------------------------------------- inputs
Procs == {1, 2}

\* A company name, and one that carries quote characters.
UserPlain == <<"acme-co">>
UserQuoted == <<"x", "'", "or", "PartitionKey", "ne", "'", "x">>
Users == {UserPlain, UserQuoted}

ChatIds == {<<"chat_1">>, <<"chat_2">>}

\* The (user_id, chat_id) pairs the callers pass.
Keys == {<<UserPlain, <<"chat_1">>>>, <<UserPlain, <<"chat_2">>>>,
         <<UserQuoted, <<"chat_1">>>>}

Msg(role, content) == [role |-> role, content |-> content]

MessagesOne == << Msg("user", <<"w", "\"", "?">>) >>
MessagesTwo == << Msg("assistant", <<"h", "\\", "n">>), Msg("user", <<"w", "\"", "?">>) >>
MessageLists == {MessagesOne, MessagesTwo}

\* metadata=None and metadata={} behave alike in every test the code makes
\* of it ("metadata or {}", "if metadata and ..."): both are the empty map.
NoMetadata == [k \in {} |-> <<>>]
MetaTailored == [search_mode |-> <<"tailored">>, title |-> <<"Custom">>]
Metadatas == {NoMetadata, MetaTailored}

\* No message, no user message, a long content, and a long final message
\* that is not the first user message.
MessagesEmpty == <<>>
MessagesAssistantOnly == << Msg("assistant", <<"hi">>) >>
LongContent == [i \in 1..LongLen |-> ToString(i)]
MessagesLong == << Msg("assistant", <<"hi">>), Msg("user", LongContent) >>
MessagesLongReply == << Msg("user", <<"w", "\"", "?">>), Msg("assistant", LongContent) >>

\* A metadata that is not empty and has no title.
MetaNoTitle == [search_mode |-> <<"tailored">>]

\* The (messages, metadata) pairs of the specification of save_chat_session
\* alone.
SaveInputsWide ==
    {<<MessagesEmpty, NoMetadata>>, <<MessagesEmpty, MetaTailored>>,
     <<MessagesAssistantOnly, MetaNoTitle>>, <<MessagesTwo, NoMetadata>>,
     <<MessagesLong, NoMetadata>>, <<MessagesLong, MetaTailored>>,
     <<MessagesLongReply, MetaNoTitle>>}

\* The (messages, metadata) pairs the callers pass to save_chat_session.
SaveInputs == {<<MessagesOne, NoMetadata>>, <<MessagesTwo, MetaTailored>>}

Queries == {<<"q">>}
Responses == {<<"r">>}

\* --------------------------------------------------------------- helpers
Min(a, b) == IF a < b THEN a ELSE b

\* Mutant of Take: the last n elements, s[-n:].
Take_from_end(s, n) == SubSeq(s, Len(s) - Min(n, Len(s)) + 1, Len(s))

\* Python slice s[:n]
Take(s, n) == SubSeq(s, 1, Min(n, Len(s)))

\* Code point of the characters timestamps and hexadecimal numbers are made
\* of.
CodePoint(c) ==
    CASE c = "+" -> 43
      [] c = "." -> 46
      [] c = "0" -> 48
      [] c = "1" -> 49
      [] c = "2" -> 50
      [] c = "3" -> 51
      [] c = "4" -> 52
      [] c = "5" -> 53
      [] c = "6" -> 54
      [] c = "7" -> 55
      [] c = "8" -> 56
      [] c = "9" -> 57
      [] c = "a" -> 97
      [] c = "b" -> 98
      [] c = "c" -> 99
      [] c = "d" -> 100
      [] c = "e" -> 101
      [] c = "f" -> 102
      [] OTHER -> 0

\* Python's str comparison s < t: by code point, a proper prefix is smaller.
RECURSIVE StrLess(_, _)
StrLess(s, t) ==
    IF t = <<>> THEN FALSE
    ELSE IF s = <<>> THEN TRUE
    ELSE IF CodePoint(Head(s)) # CodePoint(Head(t))
         THEN CodePoint(Head(s)) < CodePoint(Head(t))
         ELSE StrLess(Tail(s), Tail(t))

StrLeq(s, t) == s = t \/ StrLess(s, t)

\* datetime.now(timezone.utc).isoformat() at clock reading t (half seconds):
\* the seconds, ".5" only when the sub-second part is not zero (isoformat
\* omits a zero microsecond field), then the UTC offset.  The date and the
\* hour and minute fields, equal in every reading, are left out.
isoformat(t) ==
    <<ToString(t \div 2)>>
        \o (IF t % 2 = 0 THEN <<>> ELSE <<".", "5">>)
        \o <<"+">>

\* datetime.now().strftime('%H%M%S') at clock reading t: whole seconds.
strftime_HMS(t) == ToString(t \div 2)

\* datetime.now().strftime('%Y%m%d'): one day.
strftime_Ymd(t) == "20250115"

\* Mutant of json_escape: the quote is written unescaped.
RECURSIVE json_escape_quote_unescaped(_)
json_escape_quote_unescaped(s) ==
    IF Len(s) = 0 THEN <<>>
    ELSE IF Len(s) = 1
    THEN (IF s[1] = "\\" THEN <<"\\", s[1]>> ELSE <<s[1]>>)
    ELSE json_escape_quote_unescaped(SubSeq(s, 1, Len(s) \div 2))
             \o json_escape_quote_unescaped(SubSeq(s, Len(s) \div 2 + 1, Len(s)))

\* json.dumps of the characters of a str: '"' and '\' are escaped by a
\* backslash, character by character (computed by halves, to any length).
RECURSIVE json_escape(_)
json_escape(s) ==
    IF Len(s) = 0 THEN <<>>
    ELSE IF Len(s) = 1
    THEN (IF s[1] \in {"\"", "\\"} THEN <<"\\", s[1]>> ELSE <<s[1]>>)
    ELSE json_escape(SubSeq(s, 1, Len(s) \div 2))
             \o json_escape(SubSeq(s, Len(s) \div 2 + 1, Len(s)))

\* json.dumps of a str: the escaped characters between quotes.
json_dumps_str(s) == <<"\"">> \o json_escape(s) \o <<"\"">>

\* Number of backslashes in a row that end at position i of s.
RECURSIVE backslashes_before(_, _)
backslashes_before(s, i) ==
    IF i < 1 \/ s[i] # "\\" THEN 0 ELSE 1 + backslashes_before(s, i - 1)

\* Position i of s is escaped: an odd number of backslashes precede it.
json_escaped(s, i) == backslashes_before(s, i - 1) % 2 = 1

\* The text of the escaped characters s[lo..hi], a whole number of escape
\* pairs and plain characters: a backslash yields the character after it
\* (computed by halves, cut where no escape pair is split).
RECURSIVE json_unescape(_, _, _)
json_unescape(s, lo, hi) ==
    IF lo > hi THEN <<>>
    ELSE IF lo = hi THEN <<s[lo]>>
    ELSE IF hi = lo + 1
    THEN (IF s[lo] = "\\" THEN <<s[hi]>> ELSE <<s[lo], s[hi]>>)
    ELSE LET m   == lo + (hi - lo - 1) \div 2
             cut == IF json_escaped(SubSeq(s, lo, hi), m - lo + 2) THEN m + 1 ELSE m
         IN  json_unescape(s, lo, cut) \o json_unescape(s, cut + 1, hi)

\* The JSON decoder reads a str literal of s from position i (just after
\* the opening quote) up to the first quote that is not escaped.
json_scan(s, i) ==
    LET body   == SubSeq(s, i, Len(s))
        quotes == {k \in 1..Len(body) : body[k] = "\"" /\ ~json_escaped(body, k)}
        close  == CHOOSE k \in quotes : \A j \in quotes : k <= j
    IN  IF quotes = {}
        THEN [ok |-> FALSE, value |-> <<>>, next |-> Len(s) + 1]
        ELSE [ok |-> TRUE, value |-> json_unescape(body, 1, close - 1),
              next |-> i + close]

\* json.loads of an encoded str: the text of the literal.
json_loads_str(s) == json_scan(s, 2).value

\* json.loads raises unless the literal opens with a quote and ends the text.
json_str_ok(s) ==
    /\ s # <<>>
    /\ Head(s) = "\""
    /\ json_scan(s, 2).ok
    /\ json_scan(s, 2).next = Len(s) + 1

\* ------------------------------------------------- save_chat_session data
\* blob_name = f"{user_id}/{chat_id}.json"
blob_name_of(user_id, chat_id) == user_id \o <<"/">> \o chat_id \o <<".json">>

\* Mutant of chat_data_of: message_count counts the user messages.
chat_data_of_count_user_messages(chat_id, user_id, messages, metadata, t_created, t_updated) ==
    [chat_id       |-> chat_id,
     user_id       |-> user_id,
     messages      |-> messages,
     created_at    |-> isoformat(t_created),
     updated_at    |-> isoformat(t_updated),
     message_count |-> Cardinality({i \in 1..Len(messages) : messages[i].role = "user"}),
     metadata      |-> metadata]

\* chat_data of save_chat_session; created_at and updated_at are two
\* readings of the clock, t_created and t_updated.
chat_data_of(chat_id, user_id, messages, metadata, t_created, t_updated) ==
    [chat_id       |-> chat_id,
     user_id       |-> user_id,
     messages      |-> messages,
     created_at    |-> isoformat(t_created),
     updated_at    |-> isoformat(t_updated),
     message_count |-> Len(messages),
     metadata      |-> metadata]

\* json.dumps(chat_data): every text leaf is encoded, numbers and the
\* structure are kept.
json_dumps(chat_data) ==
    [chat_id       |-> json_dumps_str(chat_data.chat_id),
     user_id       |-> json_dumps_str(chat_data.user_id),
     messages      |-> [i \in 1..Len(chat_data.messages) |->
                           [role    |-> chat_data.messages[i].role,
                            content |-> json_dumps_str(chat_data.messages[i].content)]],
     created_at    |-> json_dumps_str(chat_data.created_at),
     updated_at    |-> json_dumps_str(chat_data.updated_at),
     message_count |-> chat_data.message_count,
     metadata      |-> [k \in DOMAIN chat_data.metadata |->
                           json_dumps_str(chat_data.metadata[k])]]

\* json.loads(blob_data.readall())
json_loads(doc) ==
    [chat_id       |-> json_loads_str(doc.chat_id),
     user_id       |-> json_loads_str(doc.user_id),
     messages      |-> [i \in 1..Len(doc.messages) |->
                           [role    |-> doc.messages[i].role,
                            content |-> json_loads_str(doc.messages[i].content)]],
     created_at    |-> json_loads_str(doc.created_at),
     updated_at    |-> json_loads_str(doc.updated_at),
     message_count |-> doc.message_count,
     metadata      |-> [k \in DOMAIN doc.metadata |->
                           json_loads_str(doc.metadata[k])]]

\* json.loads accepts the document: every text leaf decodes.
json_loads_ok(doc) ==
    /\ json_str_ok(doc.chat_id)
    /\ json_str_ok(doc.user_id)
    /\ \A i \in 1..Len(doc.messages) : json_str_ok(doc.messages[i].content)
    /\ json_str_ok(doc.created_at)
    /\ json_str_ok(doc.updated_at)
    /\ \A k \in DOMAIN doc.metadata : json_str_ok(doc.metadata[k])

\* The loop "for msg in messages: if msg.get('role') == 'user': ... break":
\* index of the first user message from position i on, 0 when there is none.
RECURSIVE first_user_from(_, _)
first_user_from(messages, i) ==
    IF i > Len(messages) THEN 0
    ELSE IF messages[i].role = "user" THEN i
    ELSE first_user_from(messages, i + 1)

\* Mutant of chat_title_of: a user message takes precedence over
\* metadata['title'].
chat_title_of_messages_first(messages, metadata) ==
    LET i == first_user_from(messages, 1)
    IN  IF i # 0 THEN Take(messages[i].content, TitleMax)
        ELSE IF "title" \in DOMAIN metadata THEN metadata.title
        ELSE <<"New Chat">>

\* chat_title of save_chat_session
chat_title_of(messages, metadata) ==
    LET i == first_user_from(messages, 1)
        from_messages == IF i = 0 THEN <<"New Chat">>
                         ELSE Take(messages[i].content, TitleMax)
    IN  IF "title" \in DOMAIN metadata THEN metadata.title ELSE from_messages

\* Mutant of entity_of: UpdatedAt is taken from created_at.
entity_of_updated_from_created(chat_id, user_id, messages, metadata, chat_data, blob_name) ==
    [PartitionKey |-> user_id,
     RowKey       |-> chat_id,
     ChatTitle    |-> chat_title_of(messages, metadata),
     MessageCount |-> Len(messages),
     CreatedAt    |-> chat_data.created_at,
     UpdatedAt    |-> chat_data.created_at,
     SearchMode   |-> IF "search_mode" \in DOMAIN metadata
                      THEN metadata.search_mode ELSE <<"auto">>,
     LastMessage  |-> IF messages # <<>>
                      THEN Take(messages[Len(messages)].content, LastMessageMax)
                      ELSE <<>>,
     BlobPath     |-> blob_name]

\* entity of save_chat_session
entity_of(chat_id, user_id, messages, metadata, chat_data, blob_name) ==
    [PartitionKey |-> user_id,
     RowKey       |-> chat_id,
     ChatTitle    |-> chat_title_of(messages, metadata),
     MessageCount |-> Len(messages),
     CreatedAt    |-> chat_data.created_at,
     UpdatedAt    |-> chat_data.updated_at,
     SearchMode   |-> IF "search_mode" \in DOMAIN metadata
                      THEN metadata.search_mode ELSE <<"auto">>,
     LastMessage  |-> IF messages # <<>>
                      THEN Take(messages[Len(messages)].content, LastMessageMax)
                      ELSE <<>>,
     BlobPath     |-> blob_name]

\* ---------------------------------------------------- the two stores
\* Mutant of upload_blob: an existing blob is kept (overwrite=False with
\* the error swallowed).
upload_blob_if_absent(store, name, data) == store @@ (name :> data)

\* blob_client.upload_blob(data, overwrite=True)
upload_blob(store, name, data) == (name :> data) @@ store

\* Mutant of delete_blob: the blob is not removed.
delete_blob_kept(store, name) == store

\* blob_client.delete_blob() of an existing blob
delete_blob(store, name) == [n \in DOMAIN store \ {name} |-> store[n]]

\* Mutant of upsert_entity: an existing row is kept, not replaced.
upsert_entity_insert_only(tbl, entity) ==
    tbl @@ (<<entity.PartitionKey, entity.RowKey>> :> entity)

\* table_client.upsert_entity(entity): insert or replace by (PartitionKey, RowKey)
upsert_entity(tbl, entity) ==
    (<<entity.PartitionKey, entity.RowKey>> :> entity) @@ tbl

\* table_client.delete_entity(partition_key, row_key) of an existing row
delete_entity(tbl, partition_key, row_key) ==
    [k \in DOMAIN tbl \ {<<partition_key, row_key>>} |-> tbl[k]]

\* ------------------------------------------------------ list_user_chats
\* query_filter = f"PartitionKey eq '{user_id}'"
query_filter_of(user_id) == <<"PartitionKey", "eq", "'">> \o user_id \o <<"'">>

\* The table service reads a string literal of the filter from position i
\* (just after the opening quote): two quotes in a row are one quote
\* character, one quote ends the literal.
RECURSIVE scan_literal(_, _, _)
scan_literal(toks, i, acc) ==
    IF i > Len(toks) THEN [ok |-> FALSE, lit |-> acc, next |-> i]
    ELSE IF toks[i] = "'"
         THEN IF i + 1 <= Len(toks) /\ toks[i + 1] = "'"
              THEN scan_literal(toks, i + 2, Append(acc, "'"))
              ELSE [ok |-> TRUE, lit |-> acc, next |-> i + 1]
         ELSE scan_literal(toks, i + 1, Append(acc, toks[i]))

\* The table service parses the filter from position i as comparisons of
\* PartitionKey with a literal, joined by "or"; anything else is refused.
RECURSIVE parse_filter(_, _, _)
parse_filter(toks, i, terms) ==
    IF i + 2 > Len(toks)
       \/ toks[i] # "PartitionKey"
       \/ toks[i + 1] \notin {"eq", "ne"}
       \/ toks[i + 2] # "'"
    THEN [ok |-> FALSE, terms |-> terms]
    ELSE LET l == scan_literal(toks, i + 3, <<>>)
             found == Append(terms, [op |-> toks[i + 1], lit |-> l.lit])
         IN  IF ~l.ok THEN [ok |-> FALSE, terms |-> terms]
             ELSE IF l.next > Len(toks) THEN [ok |-> TRUE, terms |-> found]
             ELSE IF toks[l.next] = "or" THEN parse_filter(toks, l.next + 1, found)
             ELSE [ok |-> FALSE, terms |-> terms]

\* Whether an entity with this PartitionKey satisfies the parsed filter.
filter_matches(terms, partition_key) ==
    \E i \in 1..Len(terms) :
        \/ terms[i].op = "eq" /\ partition_key = terms[i].lit
        \/ terms[i].op = "ne" /\ partition_key # terms[i].lit

\* Keys of the rows table_client.query_entities(query_filter=...) yields.
query_keys(tbl, query_filter) ==
    LET parsed == parse_filter(query_filter, 1, <<>>)
    IN  {k \in DOMAIN tbl : filter_matches(parsed.terms, tbl[k].PartitionKey)}

\* Whether the service accepts the filter (it answers an error otherwise).
query_accepted(query_filter) == parse_filter(query_filter, 1, <<>>).ok

\* The orders in which a set of rows can be yielded.
Orderings(S) ==
    {o \in [1..Cardinality(S) -> S] : \A i, j \in DOMAIN o : i # j => o[i] # o[j]}

\* One element of chats, built from a yielded entity.
chat_of(entity) ==
    [chat_id       |-> entity.RowKey,
     title         |-> entity.ChatTitle,
     message_count |-> entity.MessageCount,
     created_at    |-> entity.CreatedAt,
     updated_at    |-> entity.UpdatedAt,
     search_mode   |-> entity.SearchMode,
     last_message  |-> entity.LastMessage]

\* "for entity in entities: if count >= limit: break; chats.append(...)"
collect_chats(entities, limit) ==
    [i \in 1..Min(limit, Len(entities)) |-> chat_of(entities[i])]

\* Place x in a sequence sorted by updated_at descending, after the
\* elements that do not compare smaller (list.sort is stable).
RECURSIVE insert_desc(_, _)
insert_desc(sorted, x) ==
    IF sorted = <<>> THEN <<x>>
    ELSE IF StrLess(Head(sorted).updated_at, x.updated_at)
         THEN <<x>> \o sorted
         ELSE <<Head(sorted)>> \o insert_desc(Tail(sorted), x)

\* chats.sort(key=lambda x: x['updated_at'], reverse=True)
RECURSIVE sort_desc_from(_, _, _)
sort_desc_from(chats, i, sorted) ==
    IF i > Len(chats) THEN sorted
    ELSE sort_desc_from(chats, i + 1, insert_desc(sorted, chats[i]))

sort_by_updated_at_desc(chats) == sort_desc_from(chats, 1, <<>>)

\* list_user_chats on a table whose query yields the rows in order yielded
\* (a sequence of keys); query_fails is a service error during the query.
list_user_chats(tbl, user_id, limit, yielded, query_fails) ==
    IF query_fails \/ ~query_accepted(query_filter_of(user_id)) THEN <<>>
    ELSE sort_by_updated_at_desc(
             collect_chats([i \in 1..Len(yielded) |-> tbl[yielded[i]]], limit))

\* ------------------------------------------------------ load_chat_session
\* Mutant of load_chat_session: a failed read of an existing blob is not
\* turned into None.
load_chat_session_read_error_ignored(store, chat_id, user_id, read_fails) ==
    LET blob_name == blob_name_of(user_id, chat_id)
    IN  IF blob_name \notin DOMAIN store
        THEN [found |-> FALSE]
        ELSE [found |-> TRUE, chat_data |-> json_loads(store[blob_name])]

\* load_chat_session on a blob store; read_fails is a service error.  A
\* missing blob, a failed read and a document json.loads refuses all end
\* in "return None".
load_chat_session(store, chat_id, user_id, read_fails) ==
    LET blob_name == blob_name_of(user_id, chat_id)
    IN  IF blob_name \notin DOMAIN store \/ read_fails
        THEN [found |-> FALSE]
        ELSE IF ~json_loads_ok(store[blob_name])
        THEN [found |-> FALSE]
        ELSE [found |-> TRUE, chat_data |-> json_loads(store[blob_name])]

\* Whether load_chat_session finds a document it can return when the read
\* itself does not fail.
load_chat_session_found(store, chat_id, user_id) ==
    load_chat_session(store, chat_id, user_id, FALSE).found

\* ---------------------------------------------------------- log_query
\* blob_name = f"logs/{log_id}", log_id = f"{%Y%m%d}/{chat_id}_{%H%M%S}.json"
log_blob_name_of(chat_id, t) ==
    <<"logs", "/", strftime_Ymd(t), "/">> \o chat_id
        \o <<"_", strftime_HMS(t), ".json">>

\* json.dumps(log_entry); filters and sources are passed empty.
log_entry_of(chat_id, user_id, query, response, t) ==
    [timestamp   |-> json_dumps_str(isoformat(t)),
     chat_id     |-> json_dumps_str(chat_id),
     user_id     |-> json_dumps_str(user_id),
     query       |-> json_dumps_str(query),
     response    |-> json_dumps_str(response),
     search_mode |-> json_dumps_str(<<"auto">>)]

\* =============================================================== main.py
\* ----------------------------------------------------- generate_chat_id
\* uuid.uuid4().hex with first character d: 32 hexadecimal characters.
uuid4_hex(d) == [i \in 1..UuidHexLen |-> IF i = 1 THEN d ELSE "0"]

\* The values uuid4 may draw; a value is drawn once (2^122 values: a
\* repeated draw is left out).
Uuid4Values == {uuid4_hex("3"), uuid4_hex("9"), uuid4_hex("c")}

\* f"chat_{uuid.uuid4().hex[:12]}_{datetime.now().strftime('%Y%m%d%H%M%S')}"
\* with hex the value uuid4 drew and t the clock reading; the time stamp is
\* the date followed by the time of day.
generate_chat_id(hex, t) ==
    <<"chat_">> \o Take(hex, IdHexLen) \o <<"_", strftime_Ymd(t), strftime_HMS(t)>>

\* The parts of an identifier of generate_chat_id.
random_part(chat_id) == SubSeq(chat_id, 2, Len(chat_id) - 3)
time_part(chat_id) == SubSeq(chat_id, Len(chat_id) - 1, Len(chat_id))

\* ------------------------------------------------------- session state
\* Browser sessions, each with its own st.session_state.
Sessions == {1, 2}

\* The jwt_token cookie of the browser, and the token typed in the
\* development panel.
CookieToken == <<"jwt-acme">>
ManualToken == <<"jwt-globex">>
DefaultCompany == <<"Default Company">>
DefaultUser == <<"default_user">>
Globex == <<"globex">>

\* get_jwt_token: the manual token when one is set, else the cookie.
get_jwt_token(manual_jwt_token) ==
    IF manual_jwt_token # <<>> THEN manual_jwt_token ELSE CookieToken

\* The company the client API returns for a token.
company_of(jwt_token) == IF jwt_token = CookieToken THEN UserPlain ELSE Globex

\* get_client_details()['company']: the default company when there is no
\* token or the request fails.
get_client_details(jwt_token, api_fails) ==
    IF jwt_token = <<>> \/ api_fails THEN DefaultCompany ELSE company_of(jwt_token)

\* storage_user_id = user_company unless it is empty or the default one.
storage_user_id_of(user_company) ==
    IF user_company # <<>> /\ user_company # DefaultCompany
    THEN user_company ELSE DefaultUser

\* The fallback chat history when storage is not configured.
DummyHistory ==
    << [chat_id |-> <<"1">>, title |-> <<"electricity">>, created_at |-> <<"2025-01-15">>],
       [chat_id |-> <<"2">>, title |-> <<"banking">>, created_at |-> <<"2025-01-14">>],
       [chat_id |-> <<"3">>, title |-> <<"telecommunications">>, created_at |-> <<"2025-01-13">>],
       [chat_id |-> <<"4">>, title |-> <<"oil-gas">>, created_at |-> <<"2025-01-12">>] >>

\* st.session_state.filters = {'selected_documents': []}
NoFilters == <<"selected_documents">>

\* st.session_state after the first run of the script in a browser session
\* whose cookie token the client API accepts; listed is what
\* list_user_chats returned.  chat_id None is the empty text.  sent is the
\* query the last call of call_agent_api sent to the agent API.
session_state_init(is_enabled, listed) ==
    [messages         |-> <<>>,
     search_mode      |-> <<"auto">>,
     chat_id          |-> <<>>,
     storage_user_id  |-> storage_user_id_of(get_client_details(get_jwt_token(<<>>), FALSE)),
     chat_history     |-> IF is_enabled THEN listed ELSE DummyHistory,
     filters          |-> NoFilters,
     manual_jwt_token |-> <<>>,
     sent             |-> <<>>]

\* ---------------------------------------------- get_recent_chat_history
\* messages[-num_messages:] if len(messages) >= num_messages else messages
recent_messages_of(messages, num_messages) ==
    IF Len(messages) >= num_messages
    THEN SubSeq(messages, Len(messages) - num_messages + 1, Len(messages))
    ELSE messages

\* f"{role}: {content}", a content of more than 200 characters cut to 197
\* and "..."
history_part(msg) ==
    <<msg.role, ": ">>
        \o (IF Len(msg.content) > HistoryContentMax
            THEN Take(msg.content, HistoryContentKept) \o <<"...">>
            ELSE msg.content)

\* ", ".join(history_parts)
RECURSIVE join_parts(_, _)
join_parts(recent, i) ==
    IF i > Len(recent) THEN <<>>
    ELSE history_part(recent[i])
             \o (IF i < Len(recent) THEN <<", ">> ELSE <<>>)
             \o join_parts(recent, i + 1)

\* The text get_recent_chat_history makes of the messages it selected.
history_text(recent) ==
    IF recent = <<>> THEN <<>>
    ELSE <<"Chat History is: - ">> \o join_parts(recent, 1)
             \o <<". See if the current user query relates to one of the chat history and answer accordingly. ">>

get_recent_chat_history(messages, num_messages) ==
    history_text(recent_messages_of(messages, num_messages))

\* enhanced_query of call_agent_api in 'auto' mode with no industry report:
\* the chat history of the session, then the query.
enhanced_query_of(messages, query) ==
    LET chat_history == get_recent_chat_history(messages, NumMessages)
    IN  IF chat_history # <<>>
        THEN chat_history \o <<"the current user query is: ">> \o query \o <<" ">>
        ELSE query


\* ------------------------------------------------------------- state
VARIABLES
    enabled,   \* self.enabled
    blobs,     \* the blob container: blob name -> uploaded data
    table,     \* the table: <<PartitionKey, RowKey>> -> entity
    now,       \* the latest reading of the clock, in half seconds
    pc,        \* per caller: "idle", or the store call its handler is at
    local,     \* per caller: the locals of the handler in progress
    last,      \* the most recently completed call, with its result
    ncalls,    \* number of calls started
    session,   \* per browser session: st.session_state of main.py
    issued     \* the uuid4 values drawn so far

vars == <<enabled, blobs, table, now, pc, local, last, ncalls, session, issued>>

\* The variables of the application on top of the manager.
appvars == <<session, issued>>

NoLocal == [op |-> "none"]

\* Record of a completed call.  ret is what the method returned; io lists
\* the store calls the handler made; err names the exception raised inside
\* its try block and raised the exception that left the method, "none"
\* when there was none.
NoCall ==
    [op |-> "none", chat_id |-> <<>>, user_id |-> <<>>, messages |-> <<>>,
     metadata |-> NoMetadata, limit |-> 0, ret |-> FALSE, err |-> "none",
     raised |-> "none", io |-> <<>>, updated_at |-> <<>>, repeat |-> FALSE,
     first_updated_at |-> <<>>, pre_partial |-> FALSE]

\* Readings the clock can give after reading t: time does not run backwards.
ClockAfter(t) == t..Min(t + 1, MaxTime)

\* The index row of (user_id, chat_id) describes the blob of that key.
IndexAgrees(store, tbl, user_id, chat_id) ==
    LET name == blob_name_of(user_id, chat_id)
        key  == <<user_id, chat_id>>
    IN  /\ name \in DOMAIN store
        /\ key \in DOMAIN tbl
        /\ tbl[key].MessageCount = json_loads(store[name]).message_count
        /\ tbl[key].CreatedAt = json_loads(store[name]).created_at
        /\ tbl[key].UpdatedAt = json_loads(store[name]).updated_at
        /\ tbl[key].BlobPath = name

Init ==
    /\ enabled \in BOOLEAN
    /\ blobs = [n \in {} |-> <<>>]
    /\ table = [k \in {} |-> <<>>]
    /\ now = 0
    /\ pc = [p \in Procs |-> "idle"]
    /\ local = [p \in Procs |-> NoLocal]
    /\ last = NoCall
    /\ ncalls = 0
    /\ session = [s \in Sessions |-> session_state_init(enabled, <<>>)]
    /\ issued = {}

\* A caller may start a call.
CanBegin(p) == pc[p] = "idle" /\ ncalls < MaxCalls

\* Mutant of except_clauses: only "except ResourceNotFoundError" is there.
except_clauses_not_found_only(op) == <<"ResourceNotFoundError">>

\* The except clauses of the try block of each method, in order.
except_clauses(op) ==
    CASE op = "save"   -> <<"Exception">>
      [] op = "load"   -> <<"ResourceNotFoundError", "Exception">>
      [] op = "list"   -> <<"Exception">>
      [] op = "delete" -> <<"ResourceNotFoundError", "Exception">>
      [] op = "log"    -> <<"Exception">>
      [] op = "init"   -> <<"Exception">>

\* isinstance(exc, cls) for the two classes the handlers name: every error
\* is an Exception, ResourceNotFoundError is a subclass of it.
isinstance(exc, cls) == cls = "Exception" \/ exc = cls

\* The exception that leaves the method when exc is raised in its try
\* block: exc itself unless one of the except clauses matches it.
propagated(op, exc) ==
    IF exc # "none"
       /\ \A i \in DOMAIN except_clauses(op) : ~isinstance(exc, except_clauses(op)[i])
    THEN exc ELSE "none"

\* The handler of p ends: its call becomes the last completed one.
Return(p, call) ==
    /\ pc' = [pc EXCEPT ![p] = "idle"]
    /\ local' = [local EXCEPT ![p] = NoLocal]
    /\ last' = [call EXCEPT !.raised = propagated(call.op, call.err)]

\* ------------------------------------------------------ save_chat_session
\* The call repeats the last completed one: a successful save with the
\* same chat_id, user_id, messages and metadata.
Repeats(chat_id, user_id, messages, metadata) ==
    /\ last.op = "save"
    /\ last.ret = TRUE
    /\ last.chat_id = chat_id
    /\ last.user_id = user_id
    /\ last.messages = messages
    /\ last.metadata = metadata

SaveCall(chat_id, user_id, messages, metadata) ==
    [NoCall EXCEPT !.op = "save", !.chat_id = chat_id, !.user_id = user_id,
                   !.messages = messages, !.metadata = metadata]

\* Mutant of SaveBegin: a failed upload_blob is swallowed and the handler
\* goes on to the table.
SaveBegin_upload_error_swallowed(p, chat_id, user_id, messages, metadata, t_created, t_updated, upload_fails) ==
    /\ CanBegin(p)
    /\ ncalls' = ncalls + 1
    /\ UNCHANGED <<enabled, table>>
    /\ IF ~enabled
       THEN \* if not self.enabled: return False
            /\ Return(p, SaveCall(chat_id, user_id, messages, metadata))
            /\ UNCHANGED <<blobs, now>>
       ELSE LET chat_data == chat_data_of(chat_id, user_id, messages, metadata,
                                          t_created, t_updated)
                blob_name == blob_name_of(user_id, chat_id)
                call == [SaveCall(chat_id, user_id, messages, metadata) EXCEPT
                            !.io = <<"upload_blob">>,
                            !.updated_at = chat_data.updated_at,
                            !.repeat = Repeats(chat_id, user_id, messages, metadata),
                            !.first_updated_at =
                                IF Repeats(chat_id, user_id, messages, metadata)
                                THEN last.updated_at ELSE <<>>,
                            !.pre_partial =
                                /\ blob_name \in DOMAIN blobs
                                /\ ~IndexAgrees(blobs, table, user_id, chat_id)]
            IN  /\ now' = t_updated
                /\ blobs' = IF upload_fails THEN blobs
                            ELSE upload_blob(blobs, blob_name, json_dumps(chat_data))
                /\ pc' = [pc EXCEPT ![p] = "save_index"]
                /\ local' = [local EXCEPT ![p] =
                       [op |-> "save", chat_data |-> chat_data,
                        blob_name |-> blob_name, call |-> call]]
                /\ UNCHANGED last

\* save_chat_session up to and including blob_client.upload_blob.
SaveBegin(p, chat_id, user_id, messages, metadata, t_created, t_updated, upload_fails) ==
    /\ CanBegin(p)
    /\ ncalls' = ncalls + 1
    /\ UNCHANGED <<enabled, table>>
    /\ IF ~enabled
       THEN \* if not self.enabled: return False
            /\ Return(p, SaveCall(chat_id, user_id, messages, metadata))
            /\ UNCHANGED <<blobs, now>>
       ELSE LET chat_data == chat_data_of(chat_id, user_id, messages, metadata,
                                          t_created, t_updated)
                blob_name == blob_name_of(user_id, chat_id)
                call == [SaveCall(chat_id, user_id, messages, metadata) EXCEPT
                            !.io = <<"upload_blob">>,
                            !.updated_at = chat_data.updated_at,
                            !.repeat = Repeats(chat_id, user_id, messages, metadata),
                            !.first_updated_at =
                                IF Repeats(chat_id, user_id, messages, metadata)
                                THEN last.updated_at ELSE <<>>,
                            !.pre_partial =
                                /\ blob_name \in DOMAIN blobs
                                /\ ~IndexAgrees(blobs, table, user_id, chat_id)]
            IN  /\ now' = t_updated
                /\ IF upload_fails
                   THEN \* except Exception: return False
                        /\ Return(p, [call EXCEPT !.err = "Exception"])
                        /\ UNCHANGED blobs
                   ELSE /\ blobs' = upload_blob(blobs, blob_name, json_dumps(chat_data))
                        /\ pc' = [pc EXCEPT ![p] = "save_index"]
                        /\ local' = [local EXCEPT ![p] =
                               [op |-> "save", chat_data |-> chat_data,
                                blob_name |-> blob_name, call |-> call]]
                        /\ UNCHANGED last

\* Mutant of SaveIndex: a failed upsert_entity rolls the blob back.
SaveIndex_rollback(p, upsert_fails) ==
    /\ pc[p] = "save_index"
    /\ UNCHANGED <<enabled, now, ncalls>>
    /\ blobs' = IF upsert_fails THEN delete_blob(blobs, local[p].blob_name)
                ELSE blobs
    /\ LET call == [local[p].call EXCEPT !.io = <<"upload_blob", "upsert_entity">>]
           entity == entity_of(call.chat_id, call.user_id, call.messages,
                               call.metadata, local[p].chat_data,
                               local[p].blob_name)
       IN  IF upsert_fails
           THEN \* except Exception: return False
                /\ Return(p, [call EXCEPT !.err = "Exception"])
                /\ UNCHANGED table
           ELSE /\ table' = upsert_entity(table, entity)
                /\ Return(p, [call EXCEPT !.ret = TRUE])

\* save_chat_session from the title derivation to its return.
SaveIndex(p, upsert_fails) ==
    /\ pc[p] = "save_index"
    /\ UNCHANGED <<enabled, blobs, now, ncalls>>
    /\ LET call == [local[p].call EXCEPT !.io = <<"upload_blob", "upsert_entity">>]
           entity == entity_of(call.chat_id, call.user_id, call.messages,
                               call.metadata, local[p].chat_data,
                               local[p].blob_name)
       IN  IF upsert_fails
           THEN \* except Exception: return False
                /\ Return(p, [call EXCEPT !.err = "Exception"])
                /\ UNCHANGED table
           ELSE /\ table' = upsert_entity(table, entity)
                /\ Return(p, [call EXCEPT !.ret = TRUE])

\* ----------------------------------------------------- load_chat_session
Load(p, chat_id, user_id, read_fails) ==
    /\ CanBegin(p)
    /\ ncalls' = ncalls + 1
    /\ UNCHANGED <<enabled, blobs, table, now>>
    /\ LET call == [NoCall EXCEPT !.op = "load", !.chat_id = chat_id,
                                  !.user_id = user_id]
           name == blob_name_of(user_id, chat_id)
       IN  IF ~enabled
           THEN Return(p, [call EXCEPT !.ret = [found |-> FALSE]])
           ELSE Return(p, [call EXCEPT
                    !.io = <<"download_blob">>,
                    !.ret = load_chat_session(blobs, chat_id, user_id, read_fails),
                    !.err = IF read_fails THEN "Exception"
                            ELSE IF name \notin DOMAIN blobs
                                 THEN "ResourceNotFoundError"
                            ELSE IF ~json_loads_ok(blobs[name])
                                 THEN "Exception" ELSE "none"])

\* ------------------------------------------------------- list_user_chats
\* The orders in which the query of list_user_chats may yield its rows.
Yields(user_id, query_fails) ==
    IF query_fails \/ ~query_accepted(query_filter_of(user_id)) THEN {<<>>}
    ELSE Orderings(query_keys(table, query_filter_of(user_id)))

List(p, user_id, limit, yielded, query_fails) ==
    /\ CanBegin(p)
    /\ ncalls' = ncalls + 1
    /\ UNCHANGED <<enabled, blobs, table, now>>
    /\ LET call == [NoCall EXCEPT !.op = "list", !.user_id = user_id,
                                  !.limit = limit]
       IN  IF ~enabled
           THEN Return(p, [call EXCEPT !.ret = <<>>])
           ELSE Return(p, [call EXCEPT
                    !.io = <<"query_entities">>,
                    !.ret = list_user_chats(table, user_id, limit, yielded,
                                            query_fails),
                    !.err = IF query_fails
                               \/ ~query_accepted(query_filter_of(user_id))
                            THEN "Exception" ELSE "none"])

\* ---------------------------------------------------- delete_chat_session
DeleteCall(chat_id, user_id) ==
    [NoCall EXCEPT !.op = "delete", !.chat_id = chat_id, !.user_id = user_id]

\* delete_chat_session up to and including blob_client.delete_blob.
DeleteBegin(p, chat_id, user_id, delete_fails) ==
    /\ CanBegin(p)
    /\ ncalls' = ncalls + 1
    /\ UNCHANGED <<enabled, table, now>>
    /\ LET blob_name == blob_name_of(user_id, chat_id)
           call == [DeleteCall(chat_id, user_id) EXCEPT !.io = <<"delete_blob">>]
       IN  IF ~enabled
           THEN \* if not self.enabled: return False
                /\ Return(p, DeleteCall(chat_id, user_id))
                /\ UNCHANGED blobs
           ELSE IF delete_fails
           THEN \* except Exception: return False
                /\ Return(p, [call EXCEPT !.err = "Exception"])
                /\ UNCHANGED blobs
           ELSE IF blob_name \notin DOMAIN blobs
           THEN \* except ResourceNotFoundError: return False
                /\ Return(p, [call EXCEPT !.err = "ResourceNotFoundError"])
                /\ UNCHANGED blobs
           ELSE /\ blobs' = delete_blob(blobs, blob_name)
                /\ pc' = [pc EXCEPT ![p] = "delete_index"]
                /\ local' = [local EXCEPT ![p] = [op |-> "delete", call |-> call]]
                /\ UNCHANGED last

\* delete_chat_session from table_client.delete_entity to its return.
\* For a row that is not there the table service answers 404, which
\* delete_entity of azure-data-tables, depending on its version, raises as
\* ResourceNotFoundError or swallows ("No error will be raised if the
\* entity or PartitionKey-RowKey pairing is not found"); the code names no
\* version, so not_found_raises is either.
DeleteIndex(p, delete_fails, not_found_raises) ==
    /\ pc[p] = "delete_index"
    /\ UNCHANGED <<enabled, blobs, now, ncalls>>
    /\ LET call == [local[p].call EXCEPT !.io = <<"delete_blob", "delete_entity">>]
       IN  IF delete_fails
           THEN /\ Return(p, [call EXCEPT !.err = "Exception"])
                /\ UNCHANGED table
           ELSE IF <<call.user_id, call.chat_id>> \notin DOMAIN table
           THEN /\ UNCHANGED table
                /\ IF not_found_raises
                   THEN \* except ResourceNotFoundError: return False
                        Return(p, [call EXCEPT !.err = "ResourceNotFoundError"])
                   ELSE Return(p, [call EXCEPT !.ret = TRUE])
           ELSE /\ table' = delete_entity(table, call.user_id, call.chat_id)
                /\ Return(p, [call EXCEPT !.ret = TRUE])

\* -------------------------------------------------------------- log_query
\* Mutant of LogQuery: the test of self.enabled is missing.
LogQuery_ungated(p, chat_id, user_id, query, response, t_entry, t_name, upload_fails) ==
    /\ CanBegin(p)
    /\ ncalls' = ncalls + 1
    /\ UNCHANGED <<enabled, table>>
    /\ LET call == [NoCall EXCEPT !.op = "log", !.chat_id = chat_id,
                                  !.user_id = user_id]
       IN  /\ now' = t_name
           /\ IF upload_fails
              THEN /\ Return(p, [call EXCEPT !.io = <<"upload_blob">>,
                                             !.err = "Exception"])
                   /\ UNCHANGED blobs
              ELSE /\ blobs' = upload_blob(blobs, log_blob_name_of(chat_id, t_name),
                                   log_entry_of(chat_id, user_id, query,
                                                response, t_entry))
                   /\ Return(p, [call EXCEPT !.io = <<"upload_blob">>,
                                             !.ret = TRUE])

\* t_entry is the clock reading of log_entry['timestamp'], t_name the one
\* the blob name is formatted from.
LogQuery(p, chat_id, user_id, query, response, t_entry, t_name, upload_fails) ==
    /\ CanBegin(p)
    /\ ncalls' = ncalls + 1
    /\ UNCHANGED <<enabled, table>>
    /\ LET call == [NoCall EXCEPT !.op = "log", !.chat_id = chat_id,
                                  !.user_id = user_id]
       IN  IF ~enabled
           THEN /\ Return(p, call)
                /\ UNCHANGED <<blobs, now>>
           ELSE /\ now' = t_name
                /\ IF upload_fails
                   THEN /\ Return(p, [call EXCEPT !.io = <<"upload_blob">>,
                                                  !.err = "Exception"])
                        /\ UNCHANGED blobs
                   ELSE /\ blobs' = upload_blob(blobs, log_blob_name_of(chat_id, t_name),
                                        log_entry_of(chat_id, user_id, query,
                                                     response, t_entry))
                        /\ Return(p, [call EXCEPT !.io = <<"upload_blob">>,
                                                  !.ret = TRUE])

\* ------------------------------------------------------- specification
\* No call is in progress.
AllIdle == \A q \in Procs : pc[q] = "idle"

DoSaveBegin(p) ==
    /\ UNCHANGED appvars
    /\ \E key \in Keys, input \in SaveInputs, upload_fails \in BOOLEAN :
           \E t_created \in ClockAfter(now) : \E t_updated \in ClockAfter(t_created) :
               SaveBegin(p, key[2], key[1], input[1], input[2],
                         t_created, t_updated, upload_fails)

DoSaveIndex(p) ==
    /\ UNCHANGED appvars
    /\ \E upsert_fails \in BOOLEAN : SaveIndex(p, upsert_fails)

DoLoad(p) ==
    /\ UNCHANGED appvars
    /\ \E key \in Keys, read_fails \in BOOLEAN : Load(p, key[2], key[1], read_fails)

DoList(p) ==
    /\ UNCHANGED appvars
    /\ \E user_id \in Users, limit \in 1..MaxLimit, query_fails \in BOOLEAN :
           \E yielded \in Yields(user_id, query_fails) :
               List(p, user_id, limit, yielded, query_fails)

DoDeleteBegin(p) ==
    /\ UNCHANGED appvars
    /\ \E key \in Keys, delete_fails \in BOOLEAN :
           DeleteBegin(p, key[2], key[1], delete_fails)

DoDeleteIndex(p) ==
    /\ UNCHANGED appvars
    /\ \E delete_fails \in BOOLEAN, not_found_raises \in BOOLEAN :
           DeleteIndex(p, delete_fails, not_found_raises)

DoLogQuery(p) ==
    /\ UNCHANGED appvars
    /\ \E key \in Keys, query \in Queries, response \in Responses,
          upload_fails \in BOOLEAN :
           \E t_entry \in ClockAfter(now) : \E t_name \in ClockAfter(t_entry) :
               LogQuery(p, key[2], key[1], query, response, t_entry, t_name,
                        upload_fails)

\* The caller of the sequential specification.
Caller == CHOOSE p \in Procs : \A q \in Procs : p <= q

\* One call at a time (spec section 5: a blocking call per operation, no
\* internal concurrency): every call runs to its return before the next.
Next ==
    \/ DoSaveBegin(Caller)
    \/ DoSaveIndex(Caller)
    \/ DoLoad(Caller)
    \/ DoList(Caller)
    \/ DoDeleteBegin(Caller)
    \/ DoDeleteIndex(Caller)
    \/ DoLogQuery(Caller)

Spec == Init /\ [][Next]_vars

\* save_chat_session alone, one call at a time, on one key and over the
\* wider inputs: what it derives from messages and metadata.
DoSaveBeginWide(p) ==
    /\ UNCHANGED appvars
    /\ \E input \in SaveInputsWide, upload_fails \in BOOLEAN :
           \E t_created \in ClockAfter(now) : \E t_updated \in ClockAfter(t_created) :
               SaveBegin(p, <<"chat_1">>, UserPlain, input[1], input[2],
                         t_created, t_updated, upload_fails)

NextSave ==
    \/ DoSaveBeginWide(Caller)
    \/ DoSaveIndex(Caller)

SaveSpec == Init /\ [][NextSave]_vars

\* Two processes that call save_chat_session for the same key, their store
\* calls interleaved in any order (no lock is taken anywhere in the code).
DoSaveBeginSame(p) ==
    /\ UNCHANGED appvars
    /\ \E input \in SaveInputs, upload_fails \in BOOLEAN :
           \E t_created \in ClockAfter(now) : \E t_updated \in ClockAfter(t_created) :
               SaveBegin(p, <<"chat_1">>, UserPlain, input[1], input[2],
                         t_created, t_updated, upload_fails)

NextConcurrent ==
    \E p \in Procs :
        \/ DoSaveBeginSame(p)
        \/ DoSaveIndex(p)

ConcurrentSpec == Init /\ [][NextConcurrent]_vars

\* =================================================================== claims

\* ------------------------------------------------------------------- C1
\* C1: whenever no call is in progress, every index row (user_id, chat_id)
\* has its transcript blob at {user_id}/{chat_id}.json, so that a listing
\* never names a chat whose transcript is missing.
C1_IndexRowHasBlob ==
    AllIdle =>
        \A k \in DOMAIN table : blob_name_of(k[1], k[2]) \in DOMAIN blobs

\* ------------------------------------------------------------------- C2
\* C2: after a save_chat_session that returned True, a load_chat_session
\* of the same keys whose read succeeds returns a session whose messages
\* equal the messages that were saved.
C2_SaveThenLoad ==
    (AllIdle /\ last.op = "save" /\ last.ret = TRUE) =>
        LET loaded == load_chat_session(blobs, last.chat_id, last.user_id, FALSE)
        IN  /\ loaded.found
            /\ loaded.chat_data.messages = last.messages

\* A successful save of messages that hold a quote and a backslash, under
\* the quoted user name, has been loaded back.
C2_Witness ==
    /\ AllIdle
    /\ last.op = "save"
    /\ last.ret = TRUE
    /\ last.messages = MessagesTwo
    /\ last.user_id = UserQuoted
    /\ load_chat_session(blobs, last.chat_id, last.user_id, FALSE).found

\* ------------------------------------------------------------------- C3
\* The blobs that hold the transcript of (user_id, chat_id).
TranscriptBlobs(user_id, chat_id) ==
    {n \in DOMAIN blobs :
        /\ "messages" \in DOMAIN blobs[n]
        /\ json_loads_str(blobs[n].user_id) = user_id
        /\ json_loads_str(blobs[n].chat_id) = chat_id}

\* The index rows of (user_id, chat_id).
IndexRows(user_id, chat_id) ==
    {k \in DOMAIN table :
        table[k].PartitionKey = user_id /\ table[k].RowKey = chat_id}

\* C3: when save_chat_session has returned True twice in a row with the
\* same chat_id, user_id, messages and metadata, exactly one blob and one
\* index row exist for the key, both carry the updated_at of the second
\* call, and that updated_at is not smaller than the one the first stored.
C3_SaveTwice ==
    (AllIdle /\ last.op = "save" /\ last.ret = TRUE /\ last.repeat) =>
        /\ Cardinality(TranscriptBlobs(last.user_id, last.chat_id)) = 1
        /\ Cardinality(IndexRows(last.user_id, last.chat_id)) = 1
        /\ \A n \in TranscriptBlobs(last.user_id, last.chat_id) :
               json_loads_str(blobs[n].updated_at) = last.updated_at
        /\ \A k \in IndexRows(last.user_id, last.chat_id) :
               table[k].UpdatedAt = last.updated_at
        /\ StrLeq(last.first_updated_at, last.updated_at)

\* Two successful identical saves, the second at a later clock reading.
C3_Witness ==
    /\ AllIdle
    /\ last.op = "save"
    /\ last.ret = TRUE
    /\ last.repeat
    /\ StrLess(last.first_updated_at, last.updated_at)

\* ------------------------------------------------------------------- C4
\* The rows of the partition user_id.
PartitionKeys(user_id) == {k \in DOMAIN table : k[1] = user_id}

\* result holds the n most recently updated rows of the partition user_id,
\* n the smaller of limit and the size of the partition.
MostRecent(result, user_id, limit) ==
    /\ Len(result) = Min(limit, Cardinality(PartitionKeys(user_id)))
    /\ \A i \in 1..Len(result) : <<user_id, result[i].chat_id>> \in DOMAIN table
    /\ \A k \in PartitionKeys(user_id) :
           (\A i \in 1..Len(result) : result[i].chat_id # k[2]) =>
               \A i \in 1..Len(result) :
                   StrLeq(table[k].UpdatedAt, result[i].updated_at)

\* C4: for every user whose query yields the rows of the partition, every
\* limit and every order in which the rows are yielded, list_user_chats
\* returns the min(limit, total) most recently updated sessions of the user.
C4_ListMostRecent ==
    AllIdle =>
        \A user_id \in Users, limit \in 1..MaxLimit :
            query_keys(table, query_filter_of(user_id)) = PartitionKeys(user_id) =>
                \A yielded \in Yields(user_id, FALSE) :
                    MostRecent(list_user_chats(table, user_id, limit, yielded, FALSE),
                               user_id, limit)

\* ------------------------------------------------------------------- C5
\* Sorted by updated_at, most recent first.
NonIncreasing(result) ==
    \A i \in 1..Len(result), j \in 1..Len(result) :
        i < j => StrLeq(result[j].updated_at, result[i].updated_at)

\* C5: a completed list_user_chats(user_id, limit) returned at most limit
\* records, each of them the record of a row of the partition user_id,
\* in non-increasing updated_at order.
C5_ListOwnPartition ==
    (AllIdle /\ last.op = "list") =>
        /\ Len(last.ret) <= last.limit
        /\ \A i \in 1..Len(last.ret) :
               /\ <<last.user_id, last.ret[i].chat_id>> \in DOMAIN table
               /\ last.ret[i] = chat_of(table[<<last.user_id, last.ret[i].chat_id>>])
        /\ NonIncreasing(last.ret)

\* ------------------------------------------------------------------- C6
\* C6: after a save_chat_session(chat_id, user_id, messages) that returned
\* True, list_user_chats(user_id, limit), for every limit >= 1 and every
\* order in which the partition's rows are yielded, holds exactly one
\* record with that chat_id, and its message_count is len(messages).
C6_SavedChatListed ==
    (AllIdle /\ last.op = "save" /\ last.ret = TRUE
        /\ query_keys(table, query_filter_of(last.user_id))
               = PartitionKeys(last.user_id)) =>
        \A limit \in 1..MaxLimit : \A yielded \in Yields(last.user_id, FALSE) :
            LET result == list_user_chats(table, last.user_id, limit, yielded, FALSE)
                hits == {i \in 1..Len(result) : result[i].chat_id = last.chat_id}
            IN  /\ Cardinality(hits) = 1
                /\ \A i \in hits : result[i].message_count = Len(last.messages)

BlobDeleteFailed == last.io = <<"delete_blob">> /\ last.err = "Exception"

BlobWrittenBeforeIndex ==
    \A p \in Procs :
        pc[p] = "save_index" =>
            /\ local[p].blob_name \in DOMAIN blobs
            /\ blobs[local[p].blob_name] = json_dumps(local[p].chat_data)

\* A step in which save_chat_session returns from a failed upload_blob
\* returns False, has called no store but the blob store, and leaves the
\* table as it was.
FailedUploadLeavesIndex ==
    (AllIdle /\ AllIdle' /\ ncalls' = ncalls + 1
        /\ last'.op = "save" /\ last'.err = "Exception") =>
        /\ last'.ret = FALSE
        /\ last'.io = <<"upload_blob">>
        /\ table' = table

\* The table changes in a save only in the step after the blob write.
IndexWrittenAfterBlob ==
    (table' # table /\ last'.op = "save") =>
        \E p \in Procs : pc[p] = "save_index" /\ pc'[p] = "idle"

\* C8: in save_chat_session the blob write precedes the index write, and a
\* failed blob write returns False without an upsert and leaves the index
\* row of the key unchanged.
C8_BlobBeforeIndex ==
    /\ []BlobWrittenBeforeIndex
    /\ [][FailedUploadLeavesIndex /\ IndexWrittenAfterBlob]_vars

\* save_chat_session returned False from a failed upload_blob while the
\* key had an index row.
C8_Witness ==
    /\ AllIdle
    /\ last.op = "save"
    /\ last.err = "Exception"
    /\ last.io = <<"upload_blob">>
    /\ <<last.user_id, last.chat_id>> \in DOMAIN table

\* ------------------------------------------------------------------- C9
\* The upsert_entity call of the last save raised.
UpsertFailed ==
    /\ last.op = "save"
    /\ last.io = <<"upload_blob", "upsert_entity">>
    /\ last.err = "Exception"

\* After a save whose upsert failed the call has returned False and the
\* blob it wrote is in place.
FailedUpsertKeepsBlob ==
    (AllIdle /\ UpsertFailed) =>
        LET loaded == load_chat_session(blobs, last.chat_id, last.user_id, FALSE)
        IN  /\ last.ret = FALSE
            /\ loaded.found
            /\ loaded.chat_data.messages = last.messages
            /\ loaded.chat_data.updated_at = last.updated_at

\* The step of the failed upsert changes neither store.
FailedUpsertStep ==
    \A p \in Procs :
        (pc[p] = "save_index" /\ pc'[p] = "idle" /\ last'.err = "Exception") =>
            /\ table' = table
            /\ blobs' = blobs

\* C9: when the blob write succeeds and the index upsert fails,
\* save_chat_session returns False, the blob just written stays, and the
\* index row the key had, if any, is unchanged.
C9_FailedUpsert ==
    /\ []FailedUpsertKeepsBlob
    /\ [][FailedUpsertStep]_vars

\* A save whose upsert failed, for a key whose earlier index row now
\* differs from the blob.
C9_Witness ==
    /\ AllIdle
    /\ UpsertFailed
    /\ <<last.user_id, last.chat_id>> \in DOMAIN table
    /\ ~IndexAgrees(blobs, table, last.user_id, last.chat_id)

DisabledResult(call) ==
    CASE call.op = "load" -> call.ret = [found |-> FALSE]
      [] call.op = "list" -> call.ret = <<>>
      [] OTHER            -> call.ret = FALSE

\* C11: while the manager is disabled every call of save_chat_session,
\* load_chat_session, list_user_chats, delete_chat_session and log_query
\* returns at once with False, None, [], False and False, raises nothing,
\* calls neither store, and the stores stay as they were (empty).
C11_Disabled ==
    (~enabled /\ ncalls > 0) =>
        /\ AllIdle
        /\ last.op \in {"save", "load", "list", "delete", "log"}
        /\ DisabledResult(last)
        /\ last.io = <<>>
        /\ last.err = "none"
        /\ last.raised = "none"
        /\ DOMAIN blobs = {}
        /\ DOMAIN table = {}

\* The disabled manager has answered a log_query after an earlier call.
C11_Witness ==
    /\ ~enabled
    /\ ncalls > 1
    /\ last.op = "log"
    /\ last.ret = FALSE

\* ------------------------------------------------------------------ C12
\* The value a method returned is of the type of its result.
ResultOfItsType(call) ==
    CASE call.op = "load" -> call.ret.found \in BOOLEAN
      [] call.op = "list" -> Len(call.ret) \in 0..MaxLimit
      [] OTHER            -> call.ret \in BOOLEAN

\* C12: whatever the inputs and whichever store call fails, no exception
\* leaves save_chat_session, load_chat_session, list_user_chats,
\* delete_chat_session or log_query; a call in which a store call raised
\* returned False, None or [].
C12_NothingPropagates ==
    (AllIdle /\ ncalls > 0) =>
        /\ last.raised = "none"
        /\ ResultOfItsType(last)
        /\ last.err # "none" => DisabledResult(last)

\* delete_chat_session has returned False after its delete_entity call
\* raised an error that is not ResourceNotFoundError.
C12_Witness ==
    /\ AllIdle
    /\ last.op = "delete"
    /\ last.io = <<"delete_blob", "delete_entity">>
    /\ last.err = "Exception"
    /\ last.ret = FALSE

\* ------------------------------------------------------------------ C13
\* The positions of the user messages of a message list.
UserMessages(messages) == {i \in 1..Len(messages) : messages[i].role = "user"}

\* title is the first 100 characters of content.
FirstHundredOf(title, content) ==
    /\ Len(title) = (IF Len(content) > 100 THEN 100 ELSE Len(content))
    /\ \A i \in 1..Len(title) : title[i] = content[i]

\* C13: the ChatTitle of the row a successful save_chat_session wrote is
\* metadata['title'] when metadata has a title, whatever the messages are;
\* otherwise the first 100 characters of the content of the first message
\* with role user; otherwise "New Chat".
C13_Title ==
    (AllIdle /\ last.op = "save" /\ last.ret = TRUE) =>
        LET title == table[<<last.user_id, last.chat_id>>].ChatTitle
            users == UserMessages(last.messages)
        IN  IF "title" \in DOMAIN last.metadata
            THEN title = last.metadata.title
            ELSE IF users # {}
            THEN \E i \in users :
                     /\ \A j \in users : i <= j
                     /\ FirstHundredOf(title, last.messages[i].content)
            ELSE title = <<"New Chat">>

\* A successful save without a title in metadata whose first user message
\* comes after an assistant message and is longer than 100 characters.
C13_Witness ==
    /\ AllIdle
    /\ last.op = "save"
    /\ last.ret = TRUE
    /\ last.messages = MessagesLong
    /\ "title" \notin DOMAIN last.metadata
    /\ Len(table[<<last.user_id, last.chat_id>>].ChatTitle) = 100

\* ------------------------------------------------------------------ C14
\* C14: the LastMessage of the row a successful save_chat_session wrote is
\* the first 200 characters of the content of the final message (200
\* characters exactly when the content is longer, the whole content when
\* it is not), and the empty string when messages is empty.
C14_LastMessage ==
    (AllIdle /\ last.op = "save" /\ last.ret = TRUE) =>
        LET last_message == table[<<last.user_id, last.chat_id>>].LastMessage
            n == Len(last.messages)
        IN  IF n = 0 THEN last_message = <<>>
            ELSE LET content == last.messages[n].content
                 IN  /\ Len(content) > 200 => Len(last_message) = 200
                     /\ Len(content) <= 200 => last_message = content
                     /\ \A i \in 1..Len(last_message) : last_message[i] = content[i]

\* A successful save whose final message is longer than 200 characters.
C14_Witness ==
    /\ AllIdle
    /\ last.op = "save"
    /\ last.ret = TRUE
    /\ last.messages # <<>>
    /\ Len(last.messages[Len(last.messages)].content) > 200
    /\ Len(table[<<last.user_id, last.chat_id>>].LastMessage) = 200

\* ------------------------------------------------------------------ C15
\* C15: a save_chat_session that returns True for a key that has an index
\* row (an earlier save of the key succeeded) leaves created_at as it was:
\* the row and the blob after the save carry the CreatedAt the row had
\* before it, while updated_at is the one this save read.
C15_CreatedAtFixed ==
    [][\A p \in Procs :
          (pc[p] = "save_index" /\ pc'[p] = "idle" /\ last'.ret = TRUE
              /\ <<last'.user_id, last'.chat_id>> \in DOMAIN table) =>
              LET key  == <<last'.user_id, last'.chat_id>>
                  name == blob_name_of(last'.user_id, last'.chat_id)
              IN  /\ table'[key].CreatedAt = table[key].CreatedAt
                  /\ json_loads(blobs'[name]).created_at = table[key].CreatedAt
                  /\ table'[key].UpdatedAt = last'.updated_at]_vars

\* ------------------------------------------------------------------ C16
\* The blobs save_chat_session wrote.
SessionBlobs == {n \in DOMAIN blobs : "messages" \in DOMAIN blobs[n]}

\* C16: in every blob save_chat_session wrote, message_count is the length
\* of the messages of that blob, and after a save that returned True the
\* MessageCount of the row of the key is that length too.
C16_MessageCount ==
    /\ \A n \in SessionBlobs :
           json_loads(blobs[n]).message_count = Len(json_loads(blobs[n]).messages)
    /\ (AllIdle /\ last.op = "save" /\ last.ret = TRUE) =>
           LET key  == <<last.user_id, last.chat_id>>
               name == blob_name_of(last.user_id, last.chat_id)
           IN  /\ table[key].MessageCount = Len(json_loads(blobs[name]).messages)
               /\ table[key].MessageCount = Len(last.messages)

\* A successful save of two messages, one of them an assistant message,
\* for a key whose blob was there with its row missing or stale.
C16_Witness ==
    /\ AllIdle
    /\ last.op = "save"
    /\ last.ret = TRUE
    /\ ncalls > 1
    /\ last.pre_partial
    /\ Len(last.messages) = 2
    /\ table[<<last.user_id, last.chat_id>>].MessageCount = 2

\* ------------------------------------------------------------------ C17
\* A delete_chat_session whose blob is not there returns False from its
\* first store call and changes nothing.
DeleteOfMissingBlob ==
    (AllIdle /\ AllIdle' /\ ncalls' = ncalls + 1 /\ last'.op = "delete" /\ enabled
        /\ last'.io = <<"delete_blob">>
        /\ blob_name_of(last'.user_id, last'.chat_id) \notin DOMAIN blobs) =>
        /\ last'.ret = FALSE
        /\ blobs' = blobs
        /\ table' = table

\* A delete_chat_session whose index row is not there returns False.
DeleteOfMissingRow ==
    \A p \in Procs :
        (pc[p] = "delete_index" /\ pc'[p] = "idle"
            /\ <<last'.user_id, last'.chat_id>> \notin DOMAIN table) =>
            /\ last'.ret = FALSE
            /\ table' = table

\* The row is deleted in the step after the one that deleted the blob.
BlobDeletedBeforeRow ==
    /\ (blobs' # blobs /\ Cardinality(DOMAIN blobs') < Cardinality(DOMAIN blobs)) =>
           \E p \in Procs : pc[p] = "idle" /\ pc'[p] = "delete_index"
                               /\ table' = table
    /\ (table' # table /\ last'.op = "delete") =>
           \E p \in Procs : pc[p] = "delete_index" /\ pc'[p] = "idle"
                               /\ blobs' = blobs

\* C17: delete_chat_session deletes the blob first and the index row
\* second, and returns False when the blob or the index row is not found;
\* so a second delete of a deleted session returns False and changes
\* nothing.
C17_DeleteNotFound ==
    [][DeleteOfMissingBlob /\ DeleteOfMissingRow /\ BlobDeletedBeforeRow]_vars

\* ------------------------------------------------------------------ C18
\* A document json.loads refuses: a str literal that is not closed.
CorruptDocument ==
    [json_dumps(chat_data_of(<<"chat_1">>, UserPlain, MessagesOne, NoMetadata, 0, 0))
        EXCEPT !.chat_id = <<"\"", "chat_1">>]

\* load_chat_session gives None for a blob that is not there, for a read
\* that fails and for a document that does not decode.
LoadAbsent ==
    /\ (AllIdle /\ last.op = "load" /\ enabled) =>
           /\ last.err # "none" => ~last.ret.found
           /\ blob_name_of(last.user_id, last.chat_id) \notin DOMAIN blobs
                  => ~last.ret.found
    /\ \A key \in Keys :
           /\ ~load_chat_session(blobs, key[2], key[1], TRUE).found
           /\ ~load_chat_session(delete_blob(blobs, blob_name_of(key[1], key[2])),
                                 key[2], key[1], FALSE).found
           /\ ~load_chat_session(upload_blob(blobs, blob_name_of(key[1], key[2]),
                                             CorruptDocument),
                                 key[2], key[1], FALSE).found

\* A step of load_chat_session changes neither store.
LoadChangesNothing ==
    (AllIdle /\ AllIdle' /\ ncalls' = ncalls + 1 /\ last'.op = "load") =>
        /\ blobs' = blobs
        /\ table' = table

\* C18: load_chat_session returns None when the blob {user_id}/{chat_id}.json
\* does not exist and when reading or decoding it fails, and it leaves the
\* blob container and the table as they were.
C18_LoadAbsent ==
    /\ []LoadAbsent
    /\ [][LoadChangesNothing]_vars

\* load_chat_session returned None for a blob that is there, its read
\* having failed.
C18_Witness ==
    /\ AllIdle
    /\ enabled
    /\ last.op = "load"
    /\ last.err = "Exception"
    /\ ~last.ret.found
    /\ blob_name_of(last.user_id, last.chat_id) \in DOMAIN blobs

\* ------------------------------------------------------------------ C19
\* A blob write puts the document of its writer under the blob name,
\* whatever was there and whoever else has a save in progress.
BlobWriteWins ==
    \A p \in Procs :
        (pc[p] = "idle" /\ pc'[p] = "save_index") =>
            /\ DOMAIN blobs' = DOMAIN blobs \cup {local'[p].blob_name}
            /\ \A n \in DOMAIN blobs' :
                   blobs'[n] = IF n = local'[p].blob_name
                               THEN json_dumps(local'[p].chat_data)
                               ELSE blobs[n]

\* An upsert puts the record of its writer under the key.
UpsertWins ==
    \A p \in Procs :
        (pc[p] = "save_index" /\ pc'[p] = "idle" /\ last'.ret = TRUE) =>
            LET key == <<last'.user_id, last'.chat_id>>
            IN  /\ DOMAIN table' = DOMAIN table \cup {key}
                /\ \A k \in DOMAIN table' \ {key} : table'[k] = table[k]
                /\ table'[key].UpdatedAt = local[p].chat_data.updated_at
                /\ table'[key].CreatedAt = local[p].chat_data.created_at
                /\ table'[key].MessageCount = Len(local[p].call.messages)
                /\ table'[key].BlobPath = local[p].blob_name

\* The stores change by these writes only.
OnlyWritesChange ==
    /\ blobs' # blobs => \E p \in Procs : pc[p] = "idle" /\ pc'[p] = "save_index"
    /\ table' # table => \E p \in Procs : pc[p] = "save_index" /\ pc'[p] = "idle"

\* When all saves have returned and the last to return gave True, the key
\* has one blob and one row, and the row is the record of that save, whose
\* upsert was the latest.
LaterUpsertStays ==
    (AllIdle /\ last.op = "save" /\ last.ret = TRUE) =>
        /\ Cardinality(TranscriptBlobs(last.user_id, last.chat_id)) = 1
        /\ Cardinality(IndexRows(last.user_id, last.chat_id)) = 1
        /\ table[<<last.user_id, last.chat_id>>].UpdatedAt = last.updated_at
        /\ table[<<last.user_id, last.chat_id>>].MessageCount = Len(last.messages)

\* C19: when two processes run save_chat_session for the same key with their
\* store calls interleaved, each store keeps what was written to it last:
\* every blob write and every upsert replaces what is there, nothing else
\* changes the stores, and after both saves one blob and one row exist.
C19_LastWriteWins ==
    /\ []LaterUpsertStays
    /\ [][BlobWriteWins /\ UpsertWins /\ OnlyWritesChange]_vars

\* Two saves of the key have returned True, their calls interleaved: the
\* row is the record of the save that returned last, the blob is the
\* document of the other one, which wrote its blob later.
C19_Witness ==
    /\ AllIdle
    /\ last.op = "save"
    /\ last.ret = TRUE
    /\ table[<<last.user_id, last.chat_id>>].MessageCount = Len(last.messages)
    /\ json_loads(blobs[blob_name_of(last.user_id, last.chat_id)]).messages
           # last.messages

\* ------------------------------------------------------------------ C20
\* The log objects log_query wrote.
LogBlobs(store) == {n \in DOMAIN store : "query" \in DOMAIN store[n]}

\* C20: every log_query that returns True adds one log object to those
\* that were there and leaves each earlier one as it was, so that n
\* successful calls leave n log objects.
C20_LogAppendOnly ==
    [][(AllIdle /\ AllIdle' /\ ncalls' = ncalls + 1
           /\ last'.op = "log" /\ last'.ret = TRUE) =>
           /\ Cardinality(LogBlobs(blobs')) = Cardinality(LogBlobs(blobs)) + 1
           /\ \A n \in LogBlobs(blobs) : n \in DOMAIN blobs' /\ blobs'[n] = blobs[n]]_vars

\* ------------------------------------------------------------------ C21
\* Identifiers with "/" in them, and a user named like the folder of the
\* query logs.
PathKeys ==
    {<< <<"a", "/", "b">>, <<"c">> >>,
     << <<"a">>, <<"b", "/", "c">> >>,
     << <<"logs">>, <<strftime_Ymd(0), "/", "chat_1", "_", strftime_HMS(0)>> >>}

DoSaveBeginPath(p) ==
    /\ UNCHANGED appvars
    /\ \E key \in PathKeys, input \in SaveInputs, upload_fails \in BOOLEAN :
           \E t_created \in ClockAfter(now) : \E t_updated \in ClockAfter(t_created) :
               SaveBegin(p, key[2], key[1], input[1], input[2],
                         t_created, t_updated, upload_fails)

DoDeleteBeginPath(p) ==
    /\ UNCHANGED appvars
    /\ \E key \in PathKeys, delete_fails \in BOOLEAN :
           DeleteBegin(p, key[2], key[1], delete_fails)

DoLogQueryPath(p) ==
    /\ UNCHANGED appvars
    /\ \E query \in Queries, response \in Responses, upload_fails \in BOOLEAN :
           \E t_entry \in ClockAfter(now) : \E t_name \in ClockAfter(t_entry) :
               LogQuery(p, <<"chat_1">>, UserPlain, query, response, t_entry,
                        t_name, upload_fails)

NextPath ==
    \/ DoSaveBeginPath(Caller)
    \/ DoSaveIndex(Caller)
    \/ DoDeleteBeginPath(Caller)
    \/ DoDeleteIndex(Caller)
    \/ DoLogQueryPath(Caller)

\* save, delete and log_query, one call at a time, with identifiers that
\* contain "/".
PathSpec == Init /\ [][NextPath]_vars

\* The transcripts, and the query logs, of a blob store.
TranscriptsOf(store) ==
    [n \in {m \in DOMAIN store : "messages" \in DOMAIN store[m]} |-> store[n]]
LogsOf(store) == [n \in LogBlobs(store) |-> store[n]]

\* A step that is a whole call of log_query.
LogStep == AllIdle /\ AllIdle' /\ ncalls' = ncalls + 1 /\ last'.op = "log"

\* C21: a log_query call, whether it returns True or False, leaves every
\* transcript blob and every index row as they were, and no step of
\* save_chat_session or delete_chat_session creates, changes or removes a
\* query-log object.
C21_LogIndependent ==
    [][/\ LogStep => (TranscriptsOf(blobs') = TranscriptsOf(blobs) /\ table' = table)
       /\ ~LogStep => LogsOf(blobs') = LogsOf(blobs)]_vars

\* ------------------------------------------------------------------ C27
\* The key a transcript blob was written for.
KeyOf(doc) == <<json_loads(doc).user_id, json_loads(doc).chat_id>>

\* The step in which save_chat_session uploads the blob of its key.
SaveUploads(p) ==
    /\ pc[p] = "idle"
    /\ pc'[p] = "save_index"

\* C27: the upload of save_chat_session(c1, u1, ...) leaves the transcript
\* of every other key (u2, c2) as it was, and no transcript is ever at the
\* name of a query log: distinct keys have distinct blob paths, none of
\* them under logs/.
C27_DistinctPaths ==
    /\ [][\A p \in Procs : SaveUploads(p) =>
              \A n \in SessionBlobs :
                  KeyOf(blobs[n]) # <<local'[p].call.user_id, local'[p].call.chat_id>>
                      => (n \in DOMAIN blobs' /\ blobs'[n] = blobs[n])]_vars
    /\ [](\A n \in SessionBlobs, t \in 0..MaxTime, chat_id \in ChatIds :
              n # log_blob_name_of(chat_id, t))

\* ------------------------------------------------------------------ C22
\* What a construction of the manager meets: whether the Azure packages
\* were imported, the connection string of the environment, and the
\* exception ("none" when there is none) of each client constructor and of
\* each creation request.
Environments ==
    [azure_available   : BOOLEAN,
     connection_string : {<<>>, <<"UseDevelopmentStorage=true">>},
     blob_client       : {"none", "ValueError"},
     create_container  : {"none", "ResourceExistsError", "HttpResponseError"},
     table_client      : {"none", "ValueError"},
     create_table      : {"none", "HttpResponseError"}]

\* Mutant of ensure_blob_container_exists: ResourceExistsError is not
\* caught.
ensure_blob_container_exists_not_caught(exc) == exc

\* The exception that leaves _ensure_blob_container_exists when
\* create_container raises exc: "except ResourceExistsError" logs it,
\* "except Exception" raises it again.
ensure_blob_container_exists(exc) ==
    IF exc # "none" /\ isinstance(exc, "ResourceExistsError") THEN "none" ELSE exc

\* The exception that leaves _ensure_table_exists when
\* create_table_if_not_exists raises exc: it is raised again.
ensure_table_exists(exc) == exc

\* The first exception raised in the try block of __init__.
init_error(env) ==
    IF env.blob_client # "none" THEN env.blob_client
    ELSE IF ensure_blob_container_exists(env.create_container) # "none"
    THEN ensure_blob_container_exists(env.create_container)
    ELSE IF env.table_client # "none" THEN env.table_client
    ELSE ensure_table_exists(env.create_table)

\* self.enabled when __init__ ends.
init_enabled(env) ==
    IF ~env.azure_available THEN FALSE
    ELSE IF env.connection_string = <<>> THEN FALSE
    ELSE init_error(env) = "none"

\* AzureStorageManager(): __init__ from its first line to its return.
Construct(p) ==
    /\ pc[p] = "init"
    /\ LET env == local[p].env
           err == IF env.azure_available /\ env.connection_string # <<>>
                  THEN init_error(env) ELSE "none"
       IN  /\ enabled' = init_enabled(env)
           /\ Return(p, [op |-> "init", env |-> env, ret |-> init_enabled(env),
                         err |-> err, raised |-> "none"])
    /\ UNCHANGED <<blobs, table, now, ncalls>>
    /\ UNCHANGED appvars

\* The manager is about to be constructed, in any environment.
InitConstruct ==
    /\ enabled = FALSE
    /\ blobs = [n \in {} |-> <<>>]
    /\ table = [k \in {} |-> <<>>]
    /\ now = 0
    /\ pc = [p \in Procs |-> IF p = Caller THEN "init" ELSE "idle"]
    /\ \E env \in Environments :
           local = [p \in Procs |-> IF p = Caller THEN [op |-> "init", env |-> env]
                                    ELSE NoLocal]
    /\ last = NoCall
    /\ ncalls = 0
    /\ session = [s \in Sessions |-> session_state_init(FALSE, <<>>)]
    /\ issued = {}

NextConstruct == Construct(Caller)

ConstructSpec == InitConstruct /\ [][NextConstruct]_vars

\* The container setup, and the table setup, of a construction succeeded;
\* a container that is already there is a success.
ContainerSetupOk(env) ==
    /\ env.blob_client = "none"
    /\ env.create_container \in {"none", "ResourceExistsError"}
TableSetupOk(env) ==
    /\ env.table_client = "none"
    /\ env.create_table = "none"

\* C22: the construction of the manager raises nothing, and it ends enabled
\* exactly when the packages are available, the connection string is not
\* empty and the container setup and the table setup both succeed.
C22_Construct ==
    last.op = "init" =>
        /\ last.raised = "none"
        /\ enabled <=> /\ last.env.azure_available
                       /\ last.env.connection_string # <<>>
                       /\ ContainerSetupOk(last.env)
                       /\ TableSetupOk(last.env)

\* A construction that found the container already there ended enabled.
C22_Witness ==
    /\ last.op = "init"
    /\ last.env.create_container = "ResourceExistsError"
    /\ enabled

\* ------------------------------------------------------------------ C28
\* Two processes that call save_chat_session for the same key while no
\* store call fails: every call of an enabled manager returns True.
DoSaveBeginSameOk(p) ==
    /\ UNCHANGED appvars
    /\ \E input \in SaveInputs :
           \E t_created \in ClockAfter(now) : \E t_updated \in ClockAfter(t_created) :
               SaveBegin(p, <<"chat_1">>, UserPlain, input[1], input[2],
                         t_created, t_updated, FALSE)

DoSaveIndexOk(p) ==
    /\ UNCHANGED appvars
    /\ SaveIndex(p, FALSE)

NextConcurrentOk ==
    \E p \in Procs :
        \/ DoSaveBeginSameOk(p)
        \/ DoSaveIndexOk(p)

ConcurrentOkSpec == Init /\ [][NextConcurrentOk]_vars

\* C28: whenever no save of the key is in progress and every save so far
\* returned True, the index row of the key carries the message_count and
\* the updated_at of its blob, also after two saves whose store calls
\* interleaved.
C28_IndexAgreesWhenIdle ==
    (enabled /\ AllIdle /\ ncalls > 0) =>
        LET name == blob_name_of(UserPlain, <<"chat_1">>)
            key  == <<UserPlain, <<"chat_1">>>>
        IN  /\ name \in DOMAIN blobs
            /\ key \in DOMAIN table
            /\ table[key].MessageCount = json_loads(blobs[name]).message_count
            /\ table[key].UpdatedAt = json_loads(blobs[name]).updated_at

\* ========================================================= main.py handlers
\* save_chat_session as one call on stores store and tbl: the stores it
\* leaves and what it returns.  Its clock readings are all t.
save_chat_session(store, tbl, chat_id, user_id, messages, metadata, t, upload_fails, upsert_fails) ==
    LET chat_data == chat_data_of(chat_id, user_id, messages, metadata, t, t)
        blob_name == blob_name_of(user_id, chat_id)
        entity    == entity_of(chat_id, user_id, messages, metadata, chat_data,
                               blob_name)
        uploaded  == upload_blob(store, blob_name, json_dumps(chat_data))
    IN  IF upload_fails THEN [blobs |-> store, table |-> tbl, ret |-> FALSE]
        ELSE IF upsert_fails THEN [blobs |-> uploaded, table |-> tbl, ret |-> FALSE]
        ELSE [blobs |-> uploaded, table |-> upsert_entity(tbl, entity), ret |-> TRUE]

\* log_query as one call on store: the store it leaves.
log_query(store, chat_id, user_id, query, response, t, upload_fails) ==
    IF upload_fails THEN store
    ELSE upload_blob(store, log_blob_name_of(chat_id, t),
                     log_entry_of(chat_id, user_id, query, response, t))

\* What the user types, and what the agent API answers.
Prompts == {<<"q1">>, <<"q2">>}

\* The clock after a handler run that read t: a second later, up to the
\* last reading.
AppClockAfter(t) == {Min(t + 2, MaxAppTime)}

\* A handler run may start: the script of a session runs to its end.
CanRun == AllIdle

\* metadata of save_current_chat
metadata_of(st) == [search_mode |-> st.search_mode, filters |-> st.filters]

\* The chat input handler, from "if prompt" to st.rerun(): the identifier
\* of a new chat from the uuid4 value hex, the user message, the call of
\* the agent API, the assistant message, log_query and save_current_chat,
\* whose list_user_chats is yielded the rows in any order.
ChatInput(s, prompt, response, hex, t, log_fails, upload_fails, upsert_fails, query_fails) ==
    /\ CanRun
    /\ ncalls' = ncalls + 1
    /\ now' \in AppClockAfter(t)
    /\ UNCHANGED <<enabled, pc, local>>
    /\ LET st        == session[s]
           generates == st.chat_id = <<>> /\ enabled
           chat_id   == IF generates THEN generate_chat_id(hex, t) ELSE st.chat_id
           with_user == Append(st.messages, Msg("user", prompt))
           sent      == enhanced_query_of(with_user, prompt)
           messages  == Append(with_user, Msg("assistant", response))
           logged    == log_query(blobs, chat_id, st.storage_user_id, prompt,
                                  response, t, log_fails)
           saved     == save_chat_session(logged, table, chat_id,
                                          st.storage_user_id, messages,
                                          metadata_of(st), t, upload_fails,
                                          upsert_fails)
           replied   == [st EXCEPT !.chat_id = chat_id, !.messages = messages,
                                   !.sent = sent]
       IN  /\ generates => hex \notin issued
           /\ issued' = IF generates THEN issued \cup {hex} ELSE issued
           /\ last' = [op |-> "chat_input", session |-> s, prompt |-> prompt,
                       chat_id |-> chat_id, user_id |-> st.storage_user_id,
                       ret |-> enabled /\ saved.ret]
           /\ IF ~enabled
              THEN /\ UNCHANGED <<blobs, table>>
                   /\ session' = [session EXCEPT ![s] = replied]
              ELSE /\ blobs' = saved.blobs
                   /\ table' = saved.table
                   /\ IF ~saved.ret
                      THEN session' = [session EXCEPT ![s] = replied]
                      ELSE \E yielded \in Orderings(query_keys(saved.table,
                                              query_filter_of(st.storage_user_id))) :
                               session' = [session EXCEPT ![s] =
                                   [replied EXCEPT !.chat_history =
                                       list_user_chats(saved.table, st.storage_user_id,
                                                       HistoryLimit, yielded,
                                                       query_fails)]]

\* Mutant of ui_load_chat_session: chat_id is set before the storage load
\* and kept when the load returns nothing.
ui_load_chat_session_chat_id_first(st, chat_id, is_enabled, loaded) ==
    IF ~is_enabled THEN [state |-> st, ret |-> FALSE]
    ELSE IF loaded.found
    THEN [state |-> [st EXCEPT !.messages = loaded.chat_data.messages,
                               !.chat_id = chat_id],
          ret |-> TRUE]
    ELSE [state |-> [st EXCEPT !.chat_id = chat_id], ret |-> FALSE]

\* load_chat_session of main.py on session state st, loaded being what
\* storage_manager.load_chat_session returned: the session state it leaves
\* and what it returns.
ui_load_chat_session(st, chat_id, is_enabled, loaded) ==
    IF ~is_enabled THEN [state |-> st, ret |-> FALSE]
    ELSE IF loaded.found
    THEN [state |->
              [st EXCEPT
                  !.messages = loaded.chat_data.messages,
                  !.chat_id = chat_id,
                  !.search_mode =
                      IF "search_mode" \in DOMAIN loaded.chat_data.metadata
                      THEN loaded.chat_data.metadata.search_mode ELSE @,
                  !.filters =
                      IF "filters" \in DOMAIN loaded.chat_data.metadata
                      THEN loaded.chat_data.metadata.filters ELSE @],
          ret |-> TRUE]
    ELSE [state |-> st, ret |-> FALSE]

\* A button of the chat history is clicked: load_chat_session of main.py
\* for entry i of st.session_state.chat_history when storage is enabled,
\* nothing otherwise.
ClickChat(s, i, read_fails) ==
    /\ CanRun
    /\ i \in DOMAIN session[s].chat_history
    /\ ncalls' = ncalls + 1
    /\ UNCHANGED <<enabled, blobs, table, now, pc, local, issued>>
    /\ LET st      == session[s]
           chat_id == st.chat_history[i].chat_id
           loaded  == load_chat_session(blobs, chat_id, st.storage_user_id, read_fails)
           result  == ui_load_chat_session(st, chat_id, enabled, loaded)
       IN  /\ session' = [session EXCEPT ![s] = result.state]
           /\ last' = [op |-> "click_chat", session |-> s, chat_id |-> chat_id,
                       user_id |-> st.storage_user_id, ret |-> result.ret]

\* The New Chat button: start_new_chat, hex being the uuid4 value drawn.
NewChat(s, hex, t) ==
    /\ CanRun
    /\ ncalls' = ncalls + 1
    /\ now' \in AppClockAfter(t)
    /\ UNCHANGED <<enabled, blobs, table, pc, local>>
    /\ enabled => hex \notin issued
    /\ issued' = IF enabled THEN issued \cup {hex} ELSE issued
    /\ LET chat_id == IF enabled THEN generate_chat_id(hex, t) ELSE <<>>
       IN  /\ session' = [session EXCEPT ![s] =
                  [@ EXCEPT !.messages = <<>>,
                            !.chat_id = chat_id,
                            !.filters = NoFilters]]
           /\ last' = [op |-> "new_chat", session |-> s, chat_id |-> chat_id,
                       user_id |-> session[s].storage_user_id, ret |-> TRUE]

\* The Set Token and Clear Token buttons: manual_jwt_token is set to
\* token, client_data and user_id are deleted, and the rerun of the script
\* fetches the client details and sets storage_user_id again.
SetToken(s, token, api_fails) ==
    /\ CanRun
    /\ ncalls' = ncalls + 1
    /\ UNCHANGED <<enabled, blobs, table, now, pc, local, issued>>
    /\ LET user_company == get_client_details(get_jwt_token(token), api_fails)
       IN  /\ session' = [session EXCEPT ![s] =
                  [@ EXCEPT !.manual_jwt_token = token,
                            !.storage_user_id = storage_user_id_of(user_company)]]
           /\ last' = [op |-> "set_token", session |-> s, chat_id |-> session[s].chat_id,
                       user_id |-> storage_user_id_of(user_company), ret |-> TRUE]

\* The uuid4 values a run of session s can draw when it generates an
\* identifier; one value stands for no draw.
Draws(generates) == IF generates THEN Uuid4Values \ issued ELSE {uuid4_hex("0")}

\* The store errors a run can meet: none when storage is disabled.
Failures == IF enabled THEN BOOLEAN ELSE {FALSE}

\* The runs of one behaviour are bounded.  log_query is not made to fail
\* here: the session state does not depend on it.
DoChatInput(s) ==
    /\ ncalls < MaxRuns
    /\ \E prompt \in Prompts, response \in Responses,
          hex \in Draws(enabled /\ session[s].chat_id = <<>>),
          upload_fails \in Failures, upsert_fails \in Failures,
          query_fails \in Failures :
           ChatInput(s, prompt, response, hex, now, FALSE, upload_fails,
                     upsert_fails, query_fails)

DoClickChat(s) ==
    /\ ncalls < MaxRuns
    /\ \E i \in 1..HistoryLimit, read_fails \in Failures : ClickChat(s, i, read_fails)

DoNewChat(s) ==
    /\ ncalls < MaxRuns
    /\ \E hex \in Draws(enabled) : NewChat(s, hex, now)

DoSetToken(s) ==
    /\ ncalls < MaxRuns
    /\ \E token \in {ManualToken, <<>>}, api_fails \in BOOLEAN :
           SetToken(s, token, api_fails)

\* The browser session of the specification of one session.
Visitor == CHOOSE s \in Sessions : \A r \in Sessions : s <= r

\* The handlers of the application in one browser session, one run at a
\* time.
NextApp ==
    \/ DoChatInput(Visitor)
    \/ DoClickChat(Visitor)
    \/ DoNewChat(Visitor)
    \/ DoSetToken(Visitor)

AppSpec == Init /\ [][NextApp]_vars

\* ------------------------------------------------------------------ C23
\* The identifiers generate_chat_id has produced that are still in the
\* session states or in the index.
GeneratedIds ==
    ({session[s].chat_id : s \in Sessions} \ {<<>>}) \cup {k[2] : k \in DOMAIN table}

\* C23: of two identifiers generated on the same day, the one generated at
\* the earlier second is the smaller string.
C23_IdsSortByTime ==
    \A a, b \in GeneratedIds :
        StrLess(time_part(a), time_part(b)) => StrLess(a, b)

\* ------------------------------------------------------------------ C24
\* C24: the random part of every generated identifier has at least 24
\* hexadecimal characters, 96 bits at 4 bits a character.
C24_RandomPartBits ==
    \A a \in GeneratedIds : Len(random_part(a)) * 4 >= 96

\* ------------------------------------------------------------------ C26
\* C26: the query the chat input handler sends to the agent API carries as
\* chat history the last two messages that precede the query, and not the
\* query itself; with no earlier message it is the bare query.
C26_ContextPrecedesQuery ==
    last.op = "chat_input" =>
        LET st     == session[last.session]
            before == SubSeq(st.messages, 1, Len(st.messages) - 2)
        IN  st.sent =
                IF before = <<>> THEN last.prompt
                ELSE history_text(recent_messages_of(before, NumMessages))
                         \o <<"the current user query is: ">> \o last.prompt \o <<" ">>

\* ------------------------------------------------------------------ C29
\* A run of the handler of a chat history button, of session s.
ClickStep(s) == ncalls' = ncalls + 1 /\ last'.op = "click_chat" /\ last'.session = s

\* The load of main.py returns False when storage is disabled and when
\* the storage load has no document to return, and whenever it returns
\* False the session state is as it was.
FailedLoadChangesNothing(s) ==
    /\ last'.ret =>
           /\ enabled
           /\ load_chat_session_found(blobs, last'.chat_id, session[s].storage_user_id)
    /\ ~last'.ret => session'[s] = session[s]

\* A load that returns True sets messages and chat_id together, to the
\* stored messages of the chat and its identifier.
LoadReplacesBoth(s) ==
    last'.ret =>
        /\ session'[s].chat_id = last'.chat_id
        /\ session'[s].messages =
               json_loads(blobs[blob_name_of(session[s].storage_user_id,
                                             last'.chat_id)]).messages

\* In a step of session s, chat_id changes only when the messages become
\* those stored for the new identifier, or become empty, or were empty
\* and get their first exchange; and the messages change only by an
\* exchange added under the identifier they have, or with the identifier.
MessagesFollowChatId(s) ==
    LET old == session[s]
        new == session'[s]
        exchange == /\ Len(new.messages) = Len(old.messages) + 2
                    /\ SubSeq(new.messages, 1, Len(old.messages)) = old.messages
    IN  /\ new.chat_id # old.chat_id =>
               \/ ClickStep(s) /\ last'.ret
               \/ new.messages = <<>>
               \/ old.chat_id = <<>> /\ old.messages = <<>> /\ exchange
        /\ new.messages # old.messages =>
               \/ ClickStep(s) /\ last'.ret
               \/ new.messages = <<>> /\ (new.chat_id # old.chat_id \/ ~enabled)
               \/ exchange /\ (new.chat_id = old.chat_id \/ old.messages = <<>>)

\* C29: load_chat_session of main.py returns False and changes nothing of
\* the session state when storage is disabled or the storage load returns
\* nothing; when it succeeds it replaces messages and chat_id together;
\* and in every run the messages stay those of the chat_id in memory.
C29_LoadAtomic ==
    [][\A s \in Sessions :
          /\ ClickStep(s) => (FailedLoadChangesNothing(s) /\ LoadReplacesBoth(s))
          /\ MessagesFollowChatId(s)]_vars

\* A session that had moved to a new chat loaded an earlier one.
C29_Witness ==
    /\ last.op = "click_chat"
    /\ last.ret
    /\ session[last.session].chat_id = last.chat_id
    /\ session[last.session].messages # <<>>
    /\ Cardinality(issued) >= 2

\* ------------------------------------------------------------------ C30
\* C30: the chat history a session displays lists chats of its current
\* storage_user_id only, and no chat is saved under two storage_user_id:
\* the state of a session belongs to its current partition, also after
\* the manual token was set or cleared.
C30_StateOfCurrentPartition ==
    enabled =>
        /\ \A s \in Sessions : \A i \in DOMAIN session[s].chat_history :
               <<session[s].storage_user_id, session[s].chat_history[i].chat_id>>
                   \in DOMAIN table
        /\ \A n, m \in SessionBlobs :
               json_loads(blobs[n]).chat_id = json_loads(blobs[m]).chat_id => n = m

\* ------------------------------------------------------------------ C25
\* What the user of session s types.
PromptOf(s) == IF s = Visitor THEN <<"q1">> ELSE <<"q2">>

DoChatInputShared(s) ==
    /\ ncalls < MaxSharedRuns
    /\ \E response \in Responses,
          hex \in Draws(enabled /\ session[s].chat_id = <<>>) :
           ChatInput(s, PromptOf(s), response, hex, now, FALSE, FALSE, FALSE, FALSE)

DoClickChatShared(s) ==
    /\ ncalls < MaxSharedRuns
    /\ \E i \in 1..HistoryLimit : ClickChat(s, i, FALSE)

DoNewChatShared(s) ==
    /\ ncalls < MaxSharedRuns
    /\ \E hex \in Draws(enabled) : NewChat(s, hex, now)

\* Two browser sessions of one company, one handler run at a time, while
\* no store call fails.
NextShared ==
    \E s \in Sessions :
        \/ DoChatInputShared(s)
        \/ DoClickChatShared(s)
        \/ DoNewChatShared(s)

SharedSpec == Init /\ [][NextShared]_vars

\* s is a prefix of t.
IsPrefix(s, t) == Len(s) <= Len(t) /\ SubSeq(t, 1, Len(s)) = s

\* C25: every step leaves each stored transcript in place, with messages
\* that have the messages stored before as a prefix: no stored message is
\* dropped, changed or reordered.
C25_TranscriptOnlyGrows ==
    [][\A n \in SessionBlobs :
          /\ n \in DOMAIN blobs'
          /\ "messages" \in DOMAIN blobs'[n]
          /\ IsPrefix(json_loads(blobs[n]).messages,
                      json_loads(blobs'[n]).messages)]_vars

====
